---- MODULE Spec2Model ----
(***************************************************************************)
(* Fake quantization with learnable bounds (quant-pack).                   *)
(*                                                                         *)
(* The quantization operator is modelled over exact rationals: a value is  *)
(* a pair <<n, d>> with d > 0 in lowest terms.  A tensor is a sequence of  *)
(* channels, each a sequence of positions (the trailing dimensions of the  *)
(* source tensors flattened).  A bound parameter is either 0-dimensional   *)
(* (one value for the whole tensor) or a vector with one value per channel.*)
(***************************************************************************)
EXTENDS Integers, Sequences, FiniteSets, TLC

\* one forward/backward pair of the quantization operators
VARIABLES cache, out, grads, err
\* forward/backward pairs evaluated concurrently
VARIABLES inflight
\* a ParametrizedQuantWrapper and the call it is running
VARIABLES wrapper
\* the training loop of tools/train_val_classifier.py
VARIABLES trainer

vars == <<cache, out, grads, err>>
allvars == <<cache, out, grads, err, inflight, wrapper, trainer>>

(***************************************************************************)
(* Bounds of the model.                                                    *)
(***************************************************************************)
\* bit-widths 1..MaxK
MaxK == 2
\* bound parameters are integers in -MaxB..MaxB, inputs in -(MaxB+1)..(MaxB+1)
MaxB == 2

(***************************************************************************)
(* Exact arithmetic standing for the floating-point tensor operations.     *)
(***************************************************************************)
Abs(a) == IF a < 0 THEN -a ELSE a

RECURSIVE GCD(_, _)
GCD(a, b) == IF b = 0 THEN a ELSE GCD(b, a % b)

\* the rational n/d in lowest terms with a positive denominator; a division
\* by zero gives the non-finite values of floating point: <<1, 0>> is +inf,
\* <<-1, 0>> is -inf and <<0, 0>> is nan
Rat(n, d) ==
    IF d = 0 THEN <<IF n > 0 THEN 1 ELSE IF n < 0 THEN -1 ELSE 0, 0>>
    ELSE LET g == GCD(Abs(n), Abs(d))
             s == IF d < 0 THEN -1 ELSE 1
         IN  <<(s * n) \div g, (s * d) \div g>>

IsFinite(a) == a[2] # 0

R(i) == <<i, 1>>
Zero == R(0)

RAdd(a, b) == Rat(a[1] * b[2] + b[1] * a[2], a[2] * b[2])
RSub(a, b) == Rat(a[1] * b[2] - b[1] * a[2], a[2] * b[2])
RMul(a, b) == Rat(a[1] * b[1], a[2] * b[2])
RDiv(a, b) == Rat(a[1] * b[2], a[2] * b[1])
RNeg(a) == <<-a[1], a[2]>>
RLt(a, b) == a[1] * b[2] < b[1] * a[2]
RLe(a, b) == a[1] * b[2] <= b[1] * a[2]
RAbs(a) == <<Abs(a[1]), a[2]>>
\* a sign that is 1 at 0
RSignOneAtZero(a) == IF a[1] < 0 THEN R(-1) ELSE R(1)

RSign(a) == IF a[1] > 0 THEN R(1) ELSE IF a[1] < 0 THEN R(-1) ELSE R(0)
RMin(a, b) == IF RLt(b, a) THEN b ELSE a
RMax(a, b) == IF RLt(a, b) THEN b ELSE a

\* torch.round: to the nearest integer, a tie going to the even one
RRound(a) ==
    IF ~IsFinite(a) THEN a
    ELSE LET f == a[1] \div a[2]
             r == a[1] - f * a[2]
         IN  IF 2 * r < a[2] THEN R(f)
             ELSE IF 2 * r > a[2] THEN R(f + 1)
             ELSE IF f % 2 = 0 THEN R(f) ELSE R(f + 1)

\* a boolean mask converted to the tensor's dtype
ToNum(b) == IF b THEN R(1) ELSE R(0)

RECURSIVE Pow2(_)
Pow2(k) == IF k = 0 THEN 1 ELSE 2 * Pow2(k - 1)

\* the number of quantization intervals, 2 ** k - 1
\* 2^k levels instead of 2^k - 1
LevelsPow2(k) == R(Pow2(k))

Levels(k) == R(Pow2(k) - 1)

\* the sum of a sequence of rationals, accumulated left to right
SumSeq(s) ==
    LET acc[i \in 0..Len(s)] == IF i = 0 THEN Zero ELSE RAdd(acc[i - 1], s[i])
    IN  acc[Len(s)]


(***************************************************************************)
(* Tensors and broadcasting.                                               *)
(***************************************************************************)
NumChannels(x) == Len(x)
NumPositions(x) == Len(x[1])
Rows(x) == 1..NumChannels(x)
Cols(x) == 1..NumPositions(x)

\* a 0-dimensional parameter and a per-channel parameter
Scalar(v) == [dim |-> 0, val |-> <<v>>]
Vector(vs) == [dim |-> 1, val |-> vs]

\* _make_broadcast: the value of parameter t seen by an element of channel c
At(t, c) == IF t.dim = 0 THEN t.val[1] ELSE t.val[c]

\* the sum of all the elements of a tensor
SumAll(g) == SumSeq([c \in 1..Len(g) |-> SumSeq(g[c])] \o <<>>)

\* a reduction that sums over the channel dimension too
ReduceToWholeTensor(g, t) ==
    IF t.dim = 0 THEN <<SumAll(g)>>
    ELSE [c \in 1..Len(g) |-> SumAll(g)]

\* the gradient of a broadcast parameter: the elementwise gradient g summed
\* over every dimension the parameter t was broadcast along
ReduceTo(g, t) ==
    IF t.dim = 0 THEN <<SumAll(g)>>
    ELSE [c \in 1..Len(g) |-> SumSeq(g[c])]

\* an elementwise tensor built from a function f of the element's index, held
\* as a tuple of tuples (s \o <<>> is s as a tuple: its elements are computed once)
Tensor(x, f) ==
    [c \in Rows(x) |-> [p \in Cols(x) |-> f[c, p]] \o <<>>] \o <<>>

(***************************************************************************)
(* The bound-clamp primitive.                                              *)
(***************************************************************************)
\* a clamp that forgets the upper bound
ClampLowerOnly(x, lb, ub) == RMax(x, lb)

Clamp(x, lb, ub) == RMin(RMax(x, lb), ub)

MaskX(x, lb, ub) == RLe(lb, x) /\ RLe(x, ub)
MaskUp(x, ub) == RLt(ub, x)
MaskDown(x, lb) == RLt(x, lb)

\* the upper bound taking the gradient of an element that sits on it
ClampBackwardClosedUp(x, lb, ub, g) ==
    [dx  |-> RMul(g, ToNum(MaskX(x, lb, ub))),
     dlb |-> RMul(g, ToNum(MaskDown(x, lb))),
     dub |-> RMul(g, ToNum(RLe(ub, x)))]

\* the gradients of one element: to the input and to the two bounds
ClampBackward(x, lb, ub, g) ==
    [dx  |-> RMul(g, ToNum(MaskX(x, lb, ub))),
     dlb |-> RMul(g, ToNum(MaskDown(x, lb))),
     dub |-> RMul(g, ToNum(MaskUp(x, ub)))]

\* torch.clamp with number bounds (`.item()`): no gradient reaches a bound
TorchClampBackward(x, lb, ub, g) == RMul(g, ToNum(MaskX(x, lb, ub)))

\* RoundSTE: rounds forward, passes the gradient through unchanged
RoundSTE(t) == RRound(t)
RoundSTEBackward(g) == g

\* the quantization step
Delta(lb, ub, k) == RDiv(RSub(ub, lb), Levels(k))

(***************************************************************************)
(* Free mode (align_zero = False): the reference composition and its       *)
(* reverse-mode derivative, one element at a time.                         *)
(***************************************************************************)
RefFreeForward(x, lb, ub, k) ==
    LET delta == Delta(lb, ub, k)
        xc == Clamp(x, lb, ub)
    IN  RAdd(RMul(RoundSTE(RDiv(RSub(xc, lb), delta)), delta), lb)

RefFreeElemBackward(x, lb, ub, k, g) ==
    LET delta == Delta(lb, ub, k)
        xc == Clamp(x, lb, ub)
        u == RSub(xc, lb)
        t == RDiv(u, delta)
        r == RoundSTE(t)
        \* qx = m + lb
        g_m == g
        g_lb1 == g
        \* m = r * delta
        g_r == RMul(g_m, delta)
        g_delta1 == RMul(g_m, r)
        \* r = round_(t)
        g_t == RoundSTEBackward(g_r)
        \* t = u / delta
        g_u == RDiv(g_t, delta)
        g_delta2 == RNeg(RDiv(RMul(g_t, u), RMul(delta, delta)))
        \* u = xc - lb
        g_xc == g_u
        g_lb2 == RNeg(g_u)
        \* xc = clamp(x, lb, ub)
        cb == ClampBackward(x, lb, ub, g_xc)
    IN  [dx |-> cb.dx,
         dlb |-> RAdd(RAdd(g_lb1, g_lb2), cb.dlb),
         dub |-> cb.dub,
         ddelta |-> RAdd(g_delta1, g_delta2)]

(***************************************************************************)
(* Free mode: the closed form.                                             *)
(***************************************************************************)
QiDiff(x, lb, ub, k) ==
    LET t == RDiv(RSub(Clamp(x, lb, ub), lb), Delta(lb, ub, k))
    IN  RSub(RRound(t), t)

\* a forward that leaves the offset lb out of the output
FusedFreeForwardNoOffset(x, lb, ub, k) ==
    RMul(RRound(RDiv(RSub(Clamp(x, lb, ub), lb), Delta(lb, ub, k))), Delta(lb, ub, k))

FusedFreeForward(x, lb, ub, k) ==
    LET delta == Delta(lb, ub, k)
        i == RRound(RDiv(RSub(Clamp(x, lb, ub), lb), delta))
    IN  RAdd(lb, RMul(i, delta))

\* the closed form without the rounding-error correction
FusedFreeElemBackwardNoCorr(x, lb, ub, k, g) ==
    [dx |-> RMul(g, ToNum(MaskX(x, lb, ub))),
     dlb |-> RMul(g, ToNum(MaskDown(x, lb))),
     dub |-> RMul(g, ToNum(MaskUp(x, ub)))]

\* a closed form whose rounding correction enters d_lb and d_ub alike
FusedFreeElemBackwardSameSign(x, lb, ub, k, g) ==
    LET n == Levels(k)
        corr == RDiv(RMul(g, QiDiff(x, lb, ub, k)), n)
    IN  [dx |-> RMul(g, ToNum(MaskX(x, lb, ub))),
         dlb |-> RAdd(RMul(g, ToNum(MaskDown(x, lb))), corr),
         dub |-> RAdd(RMul(g, ToNum(MaskUp(x, ub))), corr)]

FusedFreeElemBackward(x, lb, ub, k, g) ==
    LET n == Levels(k)
        corr == RDiv(RMul(g, QiDiff(x, lb, ub, k)), n)
    IN  [dx |-> RMul(g, ToNum(MaskX(x, lb, ub))),
         dlb |-> RSub(RMul(g, ToNum(MaskDown(x, lb))), corr),
         dub |-> RAdd(RMul(g, ToNum(MaskUp(x, ub))), corr)]

(***************************************************************************)
(* Zero-aligned mode (align_zero = True): the adjusted bounds.             *)
(***************************************************************************)
\* a zero point taken from lb instead of |lb|
ZeroPointSigned(lb, ub, k) == RRound(RDiv(lb, Delta(lb, ub, k)))

ZeroPoint(lb, ub, k) == RRound(RDiv(RAbs(lb), Delta(lb, ub, k)))
AdjLb(lb, ub, k) == RMul(RNeg(ZeroPoint(lb, ub, k)), Delta(lb, ub, k))
AdjUb(lb, ub, k) == RMul(RSub(Levels(k), ZeroPoint(lb, ub, k)), Delta(lb, ub, k))

\* the grid index of an element
AlignedIndex(x, lb, ub, k) ==
    LET lb_ == AdjLb(lb, ub, k)
        xc == Clamp(x, lb_, AdjUb(lb, ub, k))
    IN  RRound(RDiv(RSub(xc, lb_), Delta(lb, ub, k)))

(***************************************************************************)
(* Zero-aligned mode: the reference composition and its reverse-mode       *)
(* derivative.  The adjusted bounds enter the clamp and the index as       *)
(* numbers (`.item()`), so the only paths from the output to lb and ub are *)
(* the step delta and the zero point z = round_(|lb| / delta).             *)
(***************************************************************************)
RefAlignedForward(x, lb, ub, k) ==
    LET delta == Delta(lb, ub, k)
        z == RoundSTE(RDiv(RAbs(lb), delta))
        lb_ == RMul(RNeg(z), delta)
        ub_ == RMul(RSub(Levels(k), z), delta)
        xc == Clamp(x, lb_, ub_)
        i == RoundSTE(RDiv(RSub(xc, lb_), delta))
    IN  RAdd(RMul(i, delta), lb_)

RefAlignedElemBackward(x, lb, ub, k, g) ==
    LET delta == Delta(lb, ub, k)
        a == RDiv(RAbs(lb), delta)
        z == RoundSTE(a)
        lb_ == RMul(RNeg(z), delta)
        ub_ == RMul(RSub(Levels(k), z), delta)
        xc == Clamp(x, lb_, ub_)
        w == RSub(xc, lb_)
        t == RDiv(w, delta)
        i == RoundSTE(t)
        \* qx = m + lb_
        g_m == g
        g_lbadj == g
        \* m = i * delta
        g_i == RMul(g_m, delta)
        g_delta1 == RMul(g_m, i)
        \* i = round_(t)
        g_t == RoundSTEBackward(g_i)
        \* t = w / delta
        g_w == RDiv(g_t, delta)
        g_delta2 == RNeg(RDiv(RMul(g_t, w), RMul(delta, delta)))
        \* w = xc - lb_.item(); xc = torch.clamp(x, lb_.item(), ub_.item())
        g_xc == g_w
        \* lb_ = (-z) * delta
        g_z == RNeg(RMul(g_lbadj, delta))
        g_delta3 == RMul(g_lbadj, RNeg(z))
        \* z = round_(a)
        g_a == RoundSTEBackward(g_z)
        \* a = |lb| / delta
        g_abs == RDiv(g_a, delta)
        g_delta4 == RNeg(RDiv(RMul(g_a, RAbs(lb)), RMul(delta, delta)))
    IN  [dx |-> TorchClampBackward(x, lb_, ub_, g_xc),
         dlb |-> RMul(g_abs, RSign(lb)),
         dub |-> Zero,
         ddelta |-> RAdd(RAdd(g_delta1, g_delta2), RAdd(g_delta3, g_delta4))]

(***************************************************************************)
(* Zero-aligned mode: the closed form.                                     *)
(***************************************************************************)
FusedAlignedForward(x, lb, ub, k) ==
    RAdd(AdjLb(lb, ub, k), RMul(AlignedIndex(x, lb, ub, k), Delta(lb, ub, k)))

\* d_i = (i - z) - x_sub / delta, with x_sub = xc - lb_ - |lb|
DI(x, lb, ub, k) ==
    LET lb_ == AdjLb(lb, ub, k)
        xc == Clamp(x, lb_, AdjUb(lb, ub, k))
        x_sub == RSub(RSub(xc, lb_), RAbs(lb))
    IN  RSub(RSub(AlignedIndex(x, lb, ub, k), ZeroPoint(lb, ub, k)),
             RDiv(x_sub, Delta(lb, ub, k)))

\* d_lb_ub, before its sums
DLbUbMissingSign(dy, d_i, n, sign_lb) ==
    LET d_ub == RDiv(RMul(dy, d_i), n)
    IN  [dlb |-> RNeg(d_ub), dub |-> d_ub]

DLbUb(dy, d_i, n, sign_lb) ==
    LET d_delta == RMul(dy, d_i)
        d_ub == RDiv(d_delta, n)
        d_lb == RSub(RNeg(d_ub), RMul(dy, sign_lb))
    IN  [dlb |-> d_lb, dub |-> d_ub]

\* d_x
DX(dy, mask_x) == RMul(dy, ToNum(mask_x))

FusedAlignedElemBackward(x, lb, ub, k, g) ==
    LET b == DLbUb(g, DI(x, lb, ub, k), Levels(k), RSign(lb))
    IN  [dx |-> DX(g, MaskX(x, AdjLb(lb, ub, k), AdjUb(lb, ub, k))),
         dlb |-> b.dlb,
         dub |-> b.dub]

(***************************************************************************)
(* The operators on whole tensors: broadcast forward, reduce backward.     *)
(***************************************************************************)
\* a validation that lets ub = lb through
ValidBoundsWeak(lbp, ubp) ==
    \A j \in DOMAIN lbp.val : RLe(lbp.val[j], ubp.val[j])

ValidBounds(lbp, ubp) ==
    \A j \in DOMAIN lbp.val : RLt(lbp.val[j], ubp.val[j])

ClampForward(x, lbp, ubp) ==
    LET F[c \in Rows(x), p \in Cols(x)] == Clamp(x[c][p], At(lbp, c), At(ubp, c))
    IN  Tensor(x, F)

\* one field of a tensor of per-element gradient records
Field(G, f) == [c \in DOMAIN G |-> [p \in DOMAIN G[c] |-> G[c][p][f]] \o <<>>] \o <<>>

ClampTensorBackward(x, lbp, ubp, dy) ==
    LET E[c \in Rows(x), p \in Cols(x)] == ClampBackward(x[c][p], At(lbp, c), At(ubp, c), dy[c][p])
        G == Tensor(x, E)
    IN  [dy |-> dy,
         dx |-> Field(G, "dx"),
         d_lb |-> ReduceTo(Field(G, "dlb"), lbp),
         d_ub |-> ReduceTo(Field(G, "dub"), ubp)]

\* fake_linear_quant: the composition of differentiable steps
RefForward(x, lbp, ubp, k, align_zero) ==
    LET F[c \in Rows(x), p \in Cols(x)] ==
            IF align_zero
            THEN RefAlignedForward(x[c][p], At(lbp, c), At(ubp, c), k)
            ELSE RefFreeForward(x[c][p], At(lbp, c), At(ubp, c), k)
    IN  Tensor(x, F)

\* qx.backward(dy) through the composition: delta has the shape of the
\* bounds, so its gradient is reduced before it is passed on to lb and ub
RefBackward(x, lbp, ubp, k, align_zero, dy) ==
    LET E[c \in Rows(x), p \in Cols(x)] ==
            IF align_zero
            THEN RefAlignedElemBackward(x[c][p], At(lbp, c), At(ubp, c), k, dy[c][p])
            ELSE RefFreeElemBackward(x[c][p], At(lbp, c), At(ubp, c), k, dy[c][p])
        G == Tensor(x, E)
        d_delta == ReduceTo(Field(G, "ddelta"), lbp)
        gl == ReduceTo(Field(G, "dlb"), lbp)
        gu == ReduceTo(Field(G, "dub"), ubp)
        \* delta = (ub - lb) / n
        n == Levels(k)
    IN  [dy |-> dy,
         dx |-> Field(G, "dx"),
         d_lb |-> [j \in DOMAIN gl |-> RSub(gl[j], RDiv(d_delta[j], n))],
         d_ub |-> [j \in DOMAIN gu |-> RAdd(gu[j], RDiv(d_delta[j], n))]]

\* the closed form
FusedForward(x, lbp, ubp, k, align_zero) ==
    LET F[c \in Rows(x), p \in Cols(x)] ==
            IF align_zero
            THEN FusedAlignedForward(x[c][p], At(lbp, c), At(ubp, c), k)
            ELSE FusedFreeForward(x[c][p], At(lbp, c), At(ubp, c), k)
    IN  Tensor(x, F)

FusedBackward(x, lbp, ubp, k, align_zero, dy) ==
    LET E[c \in Rows(x), p \in Cols(x)] ==
            IF align_zero
            THEN FusedAlignedElemBackward(x[c][p], At(lbp, c), At(ubp, c), k, dy[c][p])
            ELSE FusedFreeElemBackward(x[c][p], At(lbp, c), At(ubp, c), k, dy[c][p])
        G == Tensor(x, E)
    IN  [dy |-> dy,
         dx |-> Field(G, "dx"),
         d_lb |-> ReduceTo(Field(G, "dlb"), lbp),
         d_ub |-> ReduceTo(Field(G, "dub"), ubp)]

Forward(impl, x, lbp, ubp, k, align_zero) ==
    IF impl = "fused" THEN FusedForward(x, lbp, ubp, k, align_zero)
    ELSE RefForward(x, lbp, ubp, k, align_zero)

Backward(impl, x, lbp, ubp, k, align_zero, dy) ==
    IF impl = "fused" THEN FusedBackward(x, lbp, ubp, k, align_zero, dy)
    ELSE RefBackward(x, lbp, ubp, k, align_zero, dy)

(***************************************************************************)
(* State: the forward cache of the outstanding forward/backward pair, the  *)
(* output of the last forward, the gradients of the last backward and the  *)
(* error raised by the last call.                                          *)
(***************************************************************************)
NoCache == [op |-> "none"]
NoOut == [valid |-> FALSE]
NoGrads == [done |-> FALSE]
\* the parts of the program a specification leaves aside
NoPairs == <<>>
NoWrapper == [constructed |-> FALSE]
NoTrainer == [running |-> FALSE]

Init ==
    /\ cache = NoCache
    /\ out = NoOut
    /\ grads = NoGrads
    /\ err = ""
    /\ inflight = NoPairs
    /\ wrapper = NoWrapper
    /\ trainer = NoTrainer

\* clamp(x, lb, ub)
ClampCall(x, lbp, ubp) ==
    IF ~ValidBounds(lbp, ubp)
    THEN /\ err' = "InvalidBoundsError"
         /\ UNCHANGED <<cache, out, grads>>
    ELSE /\ cache.op = "none"
         /\ cache' = [op |-> "clamp", x |-> x, lb |-> lbp, ub |-> ubp,
                      consumed |-> FALSE]
         /\ out' = [valid |-> TRUE, y |-> ClampForward(x, lbp, ubp)]
         /\ grads' = NoGrads
         /\ err' = ""

\* fake_quantize(x, lb, ub, k, align_zero), by either implementation
FakeQuantize(impl, x, lbp, ubp, k, align_zero) ==
    IF ~ValidBounds(lbp, ubp)
    THEN /\ err' = "InvalidBoundsError"
         /\ UNCHANGED <<cache, out, grads>>
    ELSE /\ cache.op = "none"
         /\ cache' = [op |-> "quant", impl |-> impl, x |-> x, lb |-> lbp,
                      ub |-> ubp, k |-> k, align_zero |-> align_zero,
                      consumed |-> FALSE]
         /\ out' = [valid |-> TRUE, y |-> Forward(impl, x, lbp, ubp, k, align_zero)]
         /\ grads' = NoGrads
         /\ err' = ""

\* a staleness test that forgets the cache was consumed
StaleNoCacheOnly == cache.op = "none"

\* no forward cache is left to consume
Stale == IF cache.op = "none" THEN TRUE ELSE cache.consumed

\* the backward of the outstanding forward, which consumes its cache
BackwardCall(dy) ==
    IF Stale
    THEN /\ err' = "StaleCacheError"
         /\ UNCHANGED <<cache, out, grads>>
    ELSE /\ grads' = [done |-> TRUE] @@
                IF cache.op = "clamp"
                THEN ClampTensorBackward(cache.x, cache.lb, cache.ub, dy)
                ELSE Backward(cache.impl, cache.x, cache.lb, cache.ub, cache.k,
                              cache.align_zero, dy)
         /\ cache' = [cache EXCEPT !.consumed = TRUE]
         /\ err' = ""
         /\ UNCHANGED out

\* the cache and the results of a pair are discarded
Release ==
    /\ cache.op # "none"
    /\ cache' = NoCache
    /\ out' = NoOut
    /\ grads' = NoGrads
    /\ err' = ""

(***************************************************************************)
(* The inputs the model draws.                                             *)
(***************************************************************************)
Impls == {"ref", "fused"}
BitWidths == 1..MaxK
BoundVals == -MaxB..MaxB
XVals == -(MaxB + 1)..(MaxB + 1)
DyVals == {-1, 2}
\* tensors of one channel with a 0-dimensional bound pair
Shape == <<1, 2>>

Tensors(shape, vals) ==
    [1..shape[1] -> [1..shape[2] -> {R(v) : v \in vals}]]

ScalarPairs == {<<Scalar(R(l)), Scalar(R(u))>> : l, u \in BoundVals}

ZeroTensor(shape) == [c \in 1..shape[1] |-> [p \in 1..shape[2] |-> Zero]]

\* A rejected call reads nothing but its bounds and changes the state the
\* same way whatever they are, so one rejected pair stands for them all.
Rejected(pairs) == {b \in pairs : ~ValidBounds(b[1], b[2])}
Accepted(pairs) == {b \in pairs : ValidBounds(b[1], b[2])}
AnyOf(S) == CHOOSE b \in S : TRUE

ClampStep ==
    \/ /\ cache.op = "none"
       /\ \E b \in Accepted(ScalarPairs), x \in Tensors(Shape, XVals) :
              ClampCall(x, b[1], b[2])
    \/ /\ Rejected(ScalarPairs) # {}
       /\ ClampCall(ZeroTensor(Shape), AnyOf(Rejected(ScalarPairs))[1],
                    AnyOf(Rejected(ScalarPairs))[2])

FakeQuantizeStep ==
    \/ /\ cache.op = "none"
       /\ \E b \in Accepted(ScalarPairs), x \in Tensors(Shape, XVals) :
              \E k \in BitWidths, az \in BOOLEAN, impl \in Impls :
                  FakeQuantize(impl, x, b[1], b[2], k, az)
    \/ /\ Rejected(ScalarPairs) # {}
       /\ FakeQuantize("ref", ZeroTensor(Shape), AnyOf(Rejected(ScalarPairs))[1],
                       AnyOf(Rejected(ScalarPairs))[2], 1, FALSE)

\* a backward that finds no cache to consume fails whatever dy is
BackwardStep ==
    \/ /\ ~Stale
       /\ \E dy \in Tensors(Shape, DyVals) : BackwardCall(dy)
    \/ /\ Stale
       /\ BackwardCall(ZeroTensor(Shape))

Next ==
    \/ ClampStep /\ UNCHANGED <<inflight, wrapper, trainer>>
    \/ FakeQuantizeStep /\ UNCHANGED <<inflight, wrapper, trainer>>
    \/ BackwardStep /\ UNCHANGED <<inflight, wrapper, trainer>>
    \/ Release /\ UNCHANGED <<inflight, wrapper, trainer>>

Spec == Init /\ [][Next]_allvars

(***************************************************************************)
(* Per-channel bounds: tensors of two channels whose bound parameters are  *)
(* vectors with one value per channel.                                     *)
(***************************************************************************)
ChanShape == <<2, 2>>
ChanXVals == {-2, 1, 3}
ChanLbVals == {-1, 0}
ChanUbVals == {0, 2}
ChanDyRows == {<<R(-1), R(2)>>, <<R(2), R(-1)>>}

ChanVectors(vals) == [1..ChanShape[1] -> {R(v) : v \in vals}]
ChanPairs ==
    {<<Vector(l), Vector(u)>> : l \in ChanVectors(ChanLbVals),
                                u \in ChanVectors(ChanUbVals)}

ChanFakeQuantizeStep ==
    \/ /\ cache.op = "none"
       /\ \E b \in Accepted(ChanPairs), x \in Tensors(ChanShape, ChanXVals) :
              \E k \in BitWidths, az \in BOOLEAN, impl \in Impls :
                  FakeQuantize(impl, x, b[1], b[2], k, az)
    \/ /\ Rejected(ChanPairs) # {}
       /\ FakeQuantize("ref", ZeroTensor(ChanShape), AnyOf(Rejected(ChanPairs))[1],
                       AnyOf(Rejected(ChanPairs))[2], 1, FALSE)

ChanBackwardStep ==
    \/ /\ ~Stale
       /\ \E dy \in [1..ChanShape[1] -> ChanDyRows] : BackwardCall(dy)
    \/ /\ Stale
       /\ BackwardCall(ZeroTensor(ChanShape))

NextChan ==
    \/ ChanFakeQuantizeStep /\ UNCHANGED <<inflight, wrapper, trainer>>
    \/ ChanBackwardStep /\ UNCHANGED <<inflight, wrapper, trainer>>
    \/ Release /\ UNCHANGED <<inflight, wrapper, trainer>>

SpecChan == Init /\ [][NextChan]_allvars

(***************************************************************************)
(* Properties.                                                             *)
(***************************************************************************)
(* Concurrent evaluation: two forward/backward pairs, each with its own    *)
(* cache.  The elements of a backward are taken by workers in any order,   *)
(* and the bound gradients are accumulated atomically, one element at a    *)
(* time.                                                                   *)
(***************************************************************************)
PairIds == {1, 2}
ParShape == <<1, 2>>
ParXVals == {-3, 1}
ParBounds == {<<R(-2), R(1)>>, <<R(0), R(2)>>}
ParDys == {<<<<R(-1), R(2)>>>>, <<<<R(2), R(-1)>>>>}
IdlePair == [st |-> "idle"]

\* an accumulation that overwrites the running sum
AccumulateOverwrite(acc, share) == share

\* the atomic accumulation of one element's share into a bound gradient
Accumulate(acc, share) == RAdd(acc, share)

\* what element e of pair c gives to dx, d_lb and d_ub
ElemShare(c, e) ==
    IF c.align_zero
    THEN FusedAlignedElemBackward(c.x[e[1]][e[2]], c.lb, c.ub, c.k, c.dy[e[1]][e[2]])
    ELSE FusedFreeElemBackward(c.x[e[1]][e[2]], c.lb, c.ub, c.k, c.dy[e[1]][e[2]])

InitPar ==
    /\ cache = NoCache
    /\ out = NoOut
    /\ grads = NoGrads
    /\ err = ""
    /\ inflight = [p \in PairIds |-> IdlePair]
    /\ wrapper = NoWrapper
    /\ trainer = NoTrainer

\* the forward of pair p, which creates the cache of that pair
ParForward(p, x, lb, ub, k, align_zero) ==
    /\ inflight[p].st = "idle"
    /\ RLt(lb, ub)
    /\ inflight' = [inflight EXCEPT ![p] =
           [st |-> "forwarded", x |-> x, lb |-> lb, ub |-> ub, k |-> k,
            align_zero |-> align_zero,
            y |-> FusedForward(x, Scalar(lb), Scalar(ub), k, align_zero)]]

\* the backward of pair p is launched: no element has been processed yet
ParBackward(p, dy) ==
    /\ inflight[p].st = "forwarded"
    /\ inflight' = [inflight EXCEPT ![p] =
           [st |-> "running", dy |-> dy,
            pending |-> Rows(inflight[p].x) \X Cols(inflight[p].x),
            dx |-> ZeroTensor(ParShape), d_lb |-> Zero, d_ub |-> Zero]
           @@ inflight[p]]

\* a worker processes element e of pair p
ParAccumulate(p, e) ==
    /\ inflight[p].st = "running"
    /\ e \in inflight[p].pending
    /\ LET c == inflight[p]
           g == ElemShare(c, e)
       IN  inflight' = [inflight EXCEPT ![p] =
               [c EXCEPT !.dx[e[1]][e[2]] = g.dx,
                         !.d_lb = Accumulate(c.d_lb, g.dlb),
                         !.d_ub = Accumulate(c.d_ub, g.dub),
                         !.pending = c.pending \ {e},
                         !.st = IF c.pending = {e} THEN "done" ELSE "running"]]

\* the results of pair p are taken and its cache is discarded
ParRelease(p) ==
    /\ inflight[p].st = "done"
    /\ inflight' = [inflight EXCEPT ![p] = IdlePair]

NextPar ==
    \/ /\ \E p \in PairIds, x \in Tensors(ParShape, ParXVals), b \in ParBounds :
              \E k \in BitWidths, az \in BOOLEAN : ParForward(p, x, b[1], b[2], k, az)
       /\ UNCHANGED <<vars, wrapper, trainer>>
    \/ /\ \E p \in PairIds, dy \in ParDys : ParBackward(p, dy)
       /\ UNCHANGED <<vars, wrapper, trainer>>
    \/ /\ \E p \in PairIds, e \in (1..ParShape[1]) \X (1..ParShape[2]) :
              ParAccumulate(p, e)
       /\ UNCHANGED <<vars, wrapper, trainer>>
    \/ /\ \E p \in PairIds : ParRelease(p)
       /\ UNCHANGED <<vars, wrapper, trainer>>

SpecPar == InitPar /\ [][NextPar]_allvars

(***************************************************************************)
(* ParametrizedQuantWrapper.batch_processor: one forward of the model per  *)
(* running mode of quant_mode.                                             *)
(***************************************************************************)
MaxModes == 2
VALID_QUANT_MODE == {"fp", "quant", "qw_fa", "fw_qa"}
Modes == VALID_QUANT_MODE \cup {"float"}
QuantSubmodules == {"conv1", "fc"}
QuantModes == UNION {[1..n -> Modes] : n \in 0..MaxModes}

\* weight quantization follows the activation modes
WantsQuantWSwapped(mode) == mode \in {"quant", "fw_qa"}

\* the branches of lines 240-251: whether a mode calls quant_w() or fp_w()
WantsQuantW(mode) == mode \in {"quant", "qw_fa"}

\* the branches of lines 240-251: whether a mode calls quant_a() or fp_a()
WantsQuantA(mode) == mode \in {"quant", "fw_qa"}

\* quant_w(enabled) / quant_a(enabled): every quantized submodule is set
quant_all(enabled) == [m \in QuantSubmodules |-> enabled]

InitBatch ==
    /\ cache = NoCache
    /\ out = NoOut
    /\ grads = NoGrads
    /\ err = ""
    /\ inflight = NoPairs
    /\ trainer = NoTrainer
    /\ \E w \in [QuantSubmodules -> BOOLEAN], a \in [QuantSubmodules -> BOOLEAN] :
          wrapper = [constructed |-> TRUE, phase |-> "idle", quant_mode |-> <<>>,
                     i |-> 0, weight_enabled |-> w, input_enabled |-> a,
                     in_qat |-> FALSE, outputs |-> <<>>, forwards |-> <<>>]

\* lines 229-237: the modes are taken from the argument or from the model
batch_processor(quant_mode, given) ==
    /\ wrapper.phase # "running"
    /\ wrapper' = [wrapper EXCEPT
           !.phase = "running",
           !.quant_mode = quant_mode,
           !.i = 1,
           !.in_qat = IF given THEN @ ELSE \E j \in 1..Len(quant_mode) : quant_mode[j] # "fp",
           !.outputs = [key \in {"label"} |-> "label"],
           !.forwards = <<>>]

\* lines 238-260: one iteration of the loop over the modes
batch_iteration(raises) ==
    /\ wrapper.phase = "running"
    /\ wrapper.i <= Len(wrapper.quant_mode)
    /\ LET mode == wrapper.quant_mode[wrapper.i]
           w == quant_all(WantsQuantW(mode))
           a == quant_all(WantsQuantA(mode))
           call == [mode |-> mode, weight_enabled |-> w, input_enabled |-> a,
                    at |-> wrapper.i]
       IN  IF mode \notin VALID_QUANT_MODE
           THEN wrapper' = [wrapper EXCEPT !.phase = "AssertionError"]
           ELSE wrapper' = [wrapper EXCEPT
                    !.weight_enabled = w,
                    !.input_enabled = a,
                    !.forwards = Append(@, call),
                    !.phase = IF raises THEN "raised" ELSE "running",
                    !.i = IF raises THEN @ ELSE @ + 1,
                    !.outputs = IF raises THEN @
                                ELSE [key \in DOMAIN @ \cup {mode} |->
                                         IF key = mode THEN call ELSE @[key]]]

\* line 262
batch_return ==
    /\ wrapper.phase = "running"
    /\ wrapper.i > Len(wrapper.quant_mode)
    /\ wrapper' = [wrapper EXCEPT !.phase = "returned"]

NextBatch ==
    \/ /\ \E quant_mode \in QuantModes, given \in BOOLEAN :
              batch_processor(quant_mode, given)
       /\ UNCHANGED <<vars, inflight, trainer>>
    \/ /\ \E raises \in BOOLEAN : batch_iteration(raises)
       /\ UNCHANGED <<vars, inflight, trainer>>
    \/ /\ batch_return
       /\ UNCHANGED <<vars, inflight, trainer>>

SpecBatch == InitBatch /\ [][NextBatch]_allvars

(***************************************************************************)
(* Construction and calibration of a ParametrizedQuantWrapper around a     *)
(* small model: conv1 -> bn1 -> relu -> conv2 -> fc.                       *)
(***************************************************************************)
Names == {"", "conv1", "bn1", "relu", "conv2", "fc"}
Patterns == {"conv", "fc", "1", "conv1"}
Spell ==
    [s \in Names \cup Patterns |->
        CASE s = "" -> <<>>
          [] s = "conv1" -> <<"c", "o", "n", "v", "1">>
          [] s = "conv2" -> <<"c", "o", "n", "v", "2">>
          [] s = "conv" -> <<"c", "o", "n", "v">>
          [] s = "bn1" -> <<"b", "n", "1">>
          [] s = "relu" -> <<"r", "e", "l", "u">>
          [] s = "fc" -> <<"f", "c">>
          [] s = "1" -> <<"1">>]
TypeOf ==
    [n \in Names |->
        CASE n = "" -> "Net"
          [] n \in {"conv1", "conv2"} -> "Conv2d"
          [] n = "bn1" -> "BatchNorm2d"
          [] n = "relu" -> "ReLU"
          [] n = "fc" -> "Linear"]
_quantable_types == {"Conv2d", "Linear"}
Quantable == {n \in Names : TypeOf[n] \in _quantable_types}
WeightVals == {<<-1, 2>>, <<0, 0>>}
Weights == [Quantable -> WeightVals]
FpLayers == {<<"None">>, <<>>, <<"fc">>, <<"conv">>, <<"1">>, <<"conv1", "fc">>}
BnFoldingMappings == {<<>>, <<<<"bn1", "conv1">>>>}
CalibrationSteps == {0, 1}
CalibratedBounds == {<<0, 1>>, <<-1, 3>>}
NoParams == [registered |-> FALSE]

\* Tensor.min() and Tensor.max() of a weight
TensorMin(w) == CHOOSE v \in {w[i] : i \in 1..Len(w)} : \A j \in 1..Len(w) : v <= w[j]
TensorMax(w) == CHOOSE v \in {w[i] : i \in 1..Len(w)} : \A j \in 1..Len(w) : v >= w[j]

\* re.search: the pattern occurs somewhere in the name
Search(pattern, name) ==
    \E i \in 0..Len(Spell[name]) :
        /\ i + Len(Spell[pattern]) <= Len(Spell[name])
        /\ SubSeq(Spell[name], i + 1, i + Len(Spell[pattern])) = Spell[pattern]

\* re.match of a literal pattern: the pattern occurs at the start of the name
Match(pattern, name) ==
    /\ Len(Spell[pattern]) <= Len(Spell[name])
    /\ SubSeq(Spell[name], 1, Len(Spell[pattern])) = Spell[pattern]

\* line 119: the name is kept in full precision
IsFpLayer(fp_layers, n) ==
    /\ fp_layers # <<"None">>
    /\ \E i \in 1..Len(fp_layers) : Match(fp_layers[i], n)

\* lines 87-112: the layers the mapping folds
Folded(bn_folding_mapping) ==
    UNION {{bn_folding_mapping[i][1], bn_folding_mapping[i][2]} :
              i \in 1..Len(bn_folding_mapping)}

\* lines 114-131: the submodules that get bounds and QuantConfigs
Registered(fp_layers) ==
    {n \in Names : TypeOf[n] \in _quantable_types /\ ~IsFpLayer(fp_layers, n)}

\* lines 122-130
InitialParams(w) ==
    [registered |-> TRUE, w_lb |-> TensorMin(w), w_ub |-> TensorMax(w),
     a_lb |-> 0, a_ub |-> 1, weight_qconf |-> TRUE, input_qconf |-> TRUE]

InitBuild ==
    /\ cache = NoCache
    /\ out = NoOut
    /\ grads = NoGrads
    /\ err = ""
    /\ inflight = NoPairs
    /\ trainer = NoTrainer
    /\ \E w \in Weights :
          wrapper = [constructed |-> FALSE, weight |-> w, last |-> "none"]

\* lines 36-66: __init__, which folds the BN layers and registers the bounds
Construct(bn_folding_mapping, do_fold_bn, fp_layers) ==
    /\ ~wrapper.constructed
    /\ wrapper' =
          [constructed |-> TRUE,
           weight |-> wrapper.weight,
           fp_layers |-> fp_layers,
           bn_folding_mapping |-> bn_folding_mapping,
           fold_bn |-> do_fold_bn,
           _fused_submodules |-> Folded(bn_folding_mapping),
           _quant_submodules |-> Registered(fp_layers),
           params |-> [n \in Names |->
                          IF n \in Registered(fp_layers)
                          THEN InitialParams(wrapper.weight[n]) ELSE NoParams],
           forward |-> [n \in Names |->
                          IF n \in Registered(fp_layers) /\ n \notin Folded(bn_folding_mapping)
                          THEN <<"QUANT_FORWARD_FUNCTIONS", TypeOf[n]>>
                          ELSE IF n \in Folded(bn_folding_mapping)
                          THEN <<"FUSED_FORWARD_FUNCTIONS", TypeOf[n]>>
                          ELSE <<"forward", TypeOf[n]>>],
           weight_enabled |-> FALSE,
           input_enabled |-> FALSE,
           last |-> "_register_quant_params"]

\* an optimizer step on the weight of one layer
UpdateWeight(n, w) ==
    /\ wrapper.constructed
    /\ wrapper.weight[n] # w
    /\ wrapper' = [wrapper EXCEPT !.weight[n] = w, !.last = "step"]

\* lines 264-283: do_calibration; the activation bounds are set by the
\* calibration hook during the calibration forwards
do_calibration(calibration_step, a) ==
    /\ wrapper.constructed
    /\ wrapper' = [wrapper EXCEPT
          !.params = [n \in Names |->
               IF n \in wrapper._quant_submodules
               THEN [@[n] EXCEPT
                       !.w_lb = TensorMin(wrapper.weight[n]),
                       !.w_ub = TensorMax(wrapper.weight[n]),
                       !.a_lb = IF calibration_step > 0 THEN a[1] ELSE @,
                       !.a_ub = IF calibration_step > 0 THEN a[2] ELSE @]
               ELSE @[n]],
          !.weight_enabled = TRUE,
          !.input_enabled = FALSE,
          !.last = "do_calibration"]

NextBuild ==
    \/ /\ \E bn_folding_mapping \in BnFoldingMappings, do_fold_bn \in BOOLEAN :
              \E fp_layers \in FpLayers :
                  Construct(bn_folding_mapping, do_fold_bn, fp_layers)
       /\ UNCHANGED <<vars, inflight, trainer>>
    \/ /\ \E n \in Quantable, w \in WeightVals : UpdateWeight(n, w)
       /\ UNCHANGED <<vars, inflight, trainer>>
    \/ /\ \E calibration_step \in CalibrationSteps, a \in CalibratedBounds :
              do_calibration(calibration_step, a)
       /\ UNCHANGED <<vars, inflight, trainer>>

SpecBuild == InitBuild /\ [][NextBuild]_allvars



(***************************************************************************)
(* ParametrizedQuantWrapper.forward with runtime hooks, on a plain module  *)
(* and on a module wrapped in DistributedDataParallel.                     *)
(***************************************************************************)
MaxCalls == 2
Hooks == {"h1", "h2"}
HookedModules == {"conv1", "fc"}

\* hook.match(n, m): h1 takes conv1, h2 takes every layer
HookMatch(hook, n) == hook = "h2" \/ n = "conv1"

\* lines 194-199 and 208-213: a handle per matching module and hook
RegisterHooks(call, runtime_hooks) ==
    {[call |-> call, module |-> n, hook |-> h] :
        <<n, h>> \in {nh \in HookedModules \X runtime_hooks : HookMatch(nh[2], nh[1])}}

InitHooks ==
    /\ cache = NoCache
    /\ out = NoOut
    /\ grads = NoGrads
    /\ err = ""
    /\ inflight = NoPairs
    /\ trainer = NoTrainer
    /\ \E ddp \in BOOLEAN :
          wrapper = [constructed |-> TRUE, ddp |-> ddp, phase |-> "idle", call |-> 0,
                     runtime_hooks |-> {}, inner_forward |-> "_module_forward",
                     need_recover |-> FALSE, handles |-> {}, _handles |-> {},
                     registered |-> {}]

\* lines 222-223 and 186-213: forward enters _inject_runtime_hooks
forward_enter(runtime_hooks) ==
    /\ wrapper.phase \in {"idle", "returned", "raised"}
    /\ wrapper.call < MaxCalls
    /\ LET call == wrapper.call + 1
           plain == runtime_hooks # {} /\ ~wrapper.ddp
           new == IF plain THEN RegisterHooks(call, runtime_hooks) ELSE {}
       IN  wrapper' = [wrapper EXCEPT
               !.phase = "entered",
               !.call = call,
               !.runtime_hooks = runtime_hooks,
               !.need_recover = runtime_hooks # {} /\ wrapper.ddp,
               !.inner_forward = IF runtime_hooks # {} /\ wrapper.ddp
                                 THEN "_ddp_forward" ELSE @,
               !.handles = new,
               !._handles = {},
               !.registered = @ \cup new]

\* line 224 on the plain path, or on the DDP path without hooks, or when
\* DistributedDataParallel raises before it reaches the inner module
module_call(raises) ==
    /\ wrapper.phase = "entered"
    /\ wrapper.inner_forward = "_ddp_forward" => raises
    /\ wrapper' = [wrapper EXCEPT !.phase = IF raises THEN "raising" ELSE "returning"]

\* lines 192-203: the forward installed on the inner module of the DDP
_ddp_forward(raises) ==
    /\ wrapper.phase = "entered"
    /\ wrapper.inner_forward = "_ddp_forward"
    /\ LET new == RegisterHooks(wrapper.call, wrapper.runtime_hooks)
       IN  wrapper' = [wrapper EXCEPT
               !._handles = IF raises THEN new ELSE {},
               !.registered = IF raises THEN @ \cup new ELSE @,
               !.phase = IF raises THEN "raising" ELSE "returning"]

\* lines 216-220 and 225: the finally block, then forward returns or raises
forward_exit ==
    /\ wrapper.phase \in {"raising", "returning"}
    /\ wrapper' = [wrapper EXCEPT
           !.inner_forward = IF wrapper.need_recover THEN "_module_forward" ELSE @,
           !.registered = @ \ wrapper.handles,
           !.handles = {},
           !.phase = IF wrapper.phase = "raising" THEN "raised" ELSE "returned"]

NextHooks ==
    \/ /\ \E runtime_hooks \in SUBSET Hooks : forward_enter(runtime_hooks)
       /\ UNCHANGED <<vars, inflight, trainer>>
    \/ /\ \E raises \in BOOLEAN : module_call(raises)
       /\ UNCHANGED <<vars, inflight, trainer>>
    \/ /\ \E raises \in BOOLEAN : _ddp_forward(raises)
       /\ UNCHANGED <<vars, inflight, trainer>>
    \/ /\ forward_exit
       /\ UNCHANGED <<vars, inflight, trainer>>

SpecHooks == InitHooks /\ [][NextHooks]_allvars

(***************************************************************************)
(* ParametrizedQuantWrapper.get_optimizers                                 *)
(***************************************************************************)
MaxGroups == 2
ParamNames == {"conv1.weight", "conv1.w_lb", "fc.weight", "fc.w_lb"}
OptimNames == {"weight", "quant"}
OptimMatches == {<<".*">>, <<".*_lb$">>, <<"conv1">>, <<"weight">>, <<"fc", ".*_lb$">>}
OptimGroup == [name : OptimNames, optim_type : {"SGD"}, matches : OptimMatches]
OptimGroups == UNION {[1..n -> OptimGroup] : n \in 0..MaxGroups}

\* re.match of the patterns above against the parameter names
OptimMatch(pattern, name) ==
    CASE pattern = ".*" -> TRUE
      [] pattern = ".*_lb$" -> name \in {"conv1.w_lb", "fc.w_lb"}
      [] pattern = "conv1" -> name \in {"conv1.weight", "conv1.w_lb"}
      [] pattern = "fc" -> name \in {"fc.weight", "fc.w_lb"}
      [] pattern = "weight" -> FALSE

\* matched names stay available to the later groups
RemainingAll(named_params, matched_names) == named_params

\* lines 161-162: the matched names are popped
Remaining(named_params, matched_names) == named_params \ matched_names

\* lines 148-167; made lists the optimizers in the order of their creation
get_optimizers(optim_groups) ==
    LET after[i \in 0..Len(optim_groups)] ==
            IF i = 0
            THEN [named_params |-> ParamNames, ret |-> <<>>, made |-> <<>>]
            ELSE LET before == after[i - 1]
                     optim_group == optim_groups[i]
                     matched_names ==
                         {name \in before.named_params :
                             \E j \in 1..Len(optim_group.matches) :
                                 OptimMatch(optim_group.matches[j], name)}
                     optim == [group |-> i, optim_type |-> optim_group.optim_type,
                               params |-> matched_names]
                 IN  [named_params |-> Remaining(before.named_params, matched_names),
                      ret |-> [k \in DOMAIN before.ret \cup {optim_group.name} |->
                                  IF k = optim_group.name THEN optim ELSE before.ret[k]],
                      made |-> Append(before.made, optim)]
        ret == after[Len(optim_groups)].ret
    IN  [made |-> after[Len(optim_groups)].made,
         ret |-> IF Cardinality(DOMAIN ret) = 1
                 THEN [optimizer |-> ret[CHOOSE k \in DOMAIN ret : TRUE]]
                 ELSE [mapping |-> ret]]

InitOptim ==
    /\ cache = NoCache
    /\ out = NoOut
    /\ grads = NoGrads
    /\ err = ""
    /\ inflight = NoPairs
    /\ trainer = NoTrainer
    /\ \E optim_groups \in OptimGroups :
          wrapper = [constructed |-> TRUE, optim_groups |-> optim_groups,
                     called |-> FALSE, made |-> <<>>, ret |-> <<>>]

GetOptimizersCall ==
    /\ ~wrapper.called
    /\ wrapper' = [wrapper EXCEPT
           !.called = TRUE,
           !.made = get_optimizers(wrapper.optim_groups).made,
           !.ret = get_optimizers(wrapper.optim_groups).ret]

NextOptim ==
    GetOptimizersCall /\ UNCHANGED <<vars, inflight, trainer>>

SpecOptim == InitOptim /\ [][NextOptim]_allvars

(***************************************************************************)
(* The training loop of tools/train_val_classifier.py                      *)
(***************************************************************************)
MaxSteps == 3
EvalFreqs == {1, 2}
AccVals == {0, 50, 70}

\* an accuracy equal to the best one counts as best
IsBestOrEqual(top1, best) == top1 >= best

\* line 265
IsBest(top1, best) == top1 > best

\* line 249
EvalDue(step, freq, len) == step % freq = 0 \/ step = len

InitTrain ==
    /\ cache = NoCache
    /\ out = NoOut
    /\ grads = NoGrads
    /\ err = ""
    /\ inflight = NoPairs
    /\ wrapper = NoWrapper
    /\ \E len \in 1..MaxSteps, freq \in EvalFreqs, best \in AccVals :
          trainer = [running |-> TRUE, step |-> 0, len |-> len, freq |-> freq,
                     BEST_ACCURACY |-> best, quant_enabled |-> FALSE,
                     evaluated |-> FALSE, eval_fp_top1 |-> 0, eval_q_top1 |-> 0,
                     saves |-> <<>>, checkpoint |-> [accuracy |-> best, step |-> 0]]

\* lines 183-278: one iteration of the loop over train_loader
train_step(quant_enabled, calibrate, eval_fp_top1, eval_q_top1) ==
    /\ trainer.running
    /\ trainer.step < trainer.len
    /\ LET step == trainer.step + 1
           due == EvalDue(step, trainer.freq, trainer.len)
           top1 == IF quant_enabled THEN eval_q_top1 ELSE eval_fp_top1
           is_best == due /\ IsBest(top1, trainer.BEST_ACCURACY)
           best == IF is_best THEN top1 ELSE trainer.BEST_ACCURACY
           calibrated == IF calibrate
                         THEN <<[at |-> "calibrated", accuracy |-> trainer.BEST_ACCURACY]>>
                         ELSE <<>>
           improved == IF is_best THEN <<[at |-> "best", accuracy |-> best]>> ELSE <<>>
       IN  trainer' = [trainer EXCEPT
               !.step = step,
               !.quant_enabled = quant_enabled,
               !.evaluated = due,
               !.eval_fp_top1 = IF due THEN eval_fp_top1 ELSE 0,
               !.eval_q_top1 = IF due THEN eval_q_top1 ELSE 0,
               !.BEST_ACCURACY = best,
               !.saves = calibrated \o improved,
               !.checkpoint = IF is_best \/ calibrate
                              THEN [accuracy |-> best, step |-> step] ELSE @]

\* lines 280-281: the loop is over
train_end ==
    /\ trainer.running
    /\ trainer.step = trainer.len
    /\ trainer' = [trainer EXCEPT !.running = FALSE, !.evaluated = FALSE, !.saves = <<>>]

NextTrain ==
    \/ /\ \E quant_enabled \in BOOLEAN, calibrate \in BOOLEAN :
              \E eval_fp_top1 \in AccVals, eval_q_top1 \in AccVals :
                  train_step(quant_enabled, calibrate, eval_fp_top1, eval_q_top1)
       /\ UNCHANGED <<vars, inflight, wrapper>>
    \/ /\ train_end
       /\ UNCHANGED <<vars, inflight, wrapper>>

SpecTrain == InitTrain /\ [][NextTrain]_allvars



(***************************************************************************)
\* the outstanding pair is a fake quantization in the given mode
IsQuant(align_zero) ==
    IF cache.op = "quant" THEN cache.align_zero = align_zero ELSE FALSE
IsClamp == cache.op = "clamp"
Elems(x) == {<<c, p>> : c \in 1..Len(x), p \in 1..Len(x[1])}
SameGrads(g, h) == g.dx = h.dx /\ g.d_lb = h.d_lb /\ g.d_ub = h.d_ub
\* the sum over the elements of x of F
SumOver(x, f) == SumAll(Tensor(x, f))

\* C1: in free mode the output and the gradients of either implementation
\* equal those of the reference composition and of the closed form; with a
\* 0-dimensional bound pair dx = dy * 1[lb <= x <= ub],
\* d_ub = sum(dy * 1[x > ub]) + sum(dy * qi_diff) / N and
\* d_lb = sum(dy * 1[x < lb]) - sum(dy * qi_diff) / N.
C1_FreeAgreement ==
    IsQuant(FALSE) =>
        LET x == cache.x
            lb == cache.lb.val[1]
            ub == cache.ub.val[1]
            n == Levels(cache.k)
            delta == RDiv(RSub(ub, lb), n)
            T[c \in Rows(x), p \in Cols(x)] == RDiv(RSub(RMin(RMax(x[c][p], lb), ub), lb), delta)
            Y[c \in Rows(x), p \in Cols(x)] == RAdd(RMul(RRound(T[c, p]), delta), lb)
            Up[c \in Rows(x), p \in Cols(x)] == RMul(grads.dy[c][p], ToNum(RLt(ub, x[c][p])))
            Down[c \in Rows(x), p \in Cols(x)] == RMul(grads.dy[c][p], ToNum(RLt(x[c][p], lb)))
            Qi[c \in Rows(x), p \in Cols(x)] == RMul(grads.dy[c][p], RSub(RRound(T[c, p]), T[c, p]))
        IN  /\ out.y = RefForward(x, cache.lb, cache.ub, cache.k, FALSE)
            /\ out.y = FusedForward(x, cache.lb, cache.ub, cache.k, FALSE)
            /\ out.y = Tensor(x, Y)
            /\ grads.done =>
                /\ SameGrads(grads, RefBackward(x, cache.lb, cache.ub, cache.k,
                                                FALSE, grads.dy))
                /\ SameGrads(grads, FusedBackward(x, cache.lb, cache.ub, cache.k,
                                                  FALSE, grads.dy))
                /\ \A e \in Elems(x) :
                      grads.dx[e[1]][e[2]] =
                          IF RLe(lb, x[e[1]][e[2]]) /\ RLe(x[e[1]][e[2]], ub)
                          THEN grads.dy[e[1]][e[2]] ELSE Zero
                /\ grads.d_ub = <<RAdd(SumOver(x, Up), RDiv(SumOver(x, Qi), n))>>
                /\ grads.d_lb = <<RSub(SumOver(x, Down), RDiv(SumOver(x, Qi), n))>>

\* a free-mode backward with a saturated element and an interior element
\* that is off the grid
C1_Witness ==
    /\ IsQuant(FALSE)
    /\ grads.done
    /\ \E e \in Elems(cache.x) : RLt(cache.ub.val[1], cache.x[e[1]][e[2]])
    /\ \E e \in Elems(cache.x) :
          QiDiff(cache.x[e[1]][e[2]], cache.lb.val[1], cache.ub.val[1], cache.k) # Zero
    /\ grads.d_ub # <<Zero>>
    /\ grads.d_lb # <<Zero>>

\* C2: in zero-aligned mode the output and the gradients of either
\* implementation equal those of the reference composition and of the closed
\* form: dx = dy * 1[lb' <= x <= ub'], d_ub = sum(dy * d_i) / N with
\* d_i = (i - z) - (xc - lb' - |lb|) / delta, and
\* d_lb = -d_ub - sum(dy * sign(lb)).
C2_AlignedAgreement ==
    IsQuant(TRUE) =>
        LET x == cache.x
            lb == cache.lb.val[1]
            ub == cache.ub.val[1]
            n == Levels(cache.k)
            delta == RDiv(RSub(ub, lb), n)
            z == RRound(RDiv(RAbs(lb), delta))
            lb_ == RNeg(RMul(z, delta))
            ub_ == RMul(RSub(n, z), delta)
            XC[c \in Rows(x), p \in Cols(x)] == RMin(RMax(x[c][p], lb_), ub_)
            I[c \in Rows(x), p \in Cols(x)] == RRound(RDiv(RSub(XC[c, p], lb_), delta))
            Y[c \in Rows(x), p \in Cols(x)] == RAdd(lb_, RMul(I[c, p], delta))
            DyDi[c \in Rows(x), p \in Cols(x)] ==
                RMul(grads.dy[c][p],
                     RSub(RSub(I[c, p], z),
                          RDiv(RSub(RSub(XC[c, p], lb_), RAbs(lb)), delta)))
            DySign[c \in Rows(x), p \in Cols(x)] == RMul(grads.dy[c][p], RSign(lb))
        IN  /\ out.y = RefForward(x, cache.lb, cache.ub, cache.k, TRUE)
            /\ out.y = FusedForward(x, cache.lb, cache.ub, cache.k, TRUE)
            /\ out.y = Tensor(x, Y)
            /\ grads.done =>
                /\ SameGrads(grads, RefBackward(x, cache.lb, cache.ub, cache.k,
                                                TRUE, grads.dy))
                /\ SameGrads(grads, FusedBackward(x, cache.lb, cache.ub, cache.k,
                                                  TRUE, grads.dy))
                /\ \A e \in Elems(x) :
                      grads.dx[e[1]][e[2]] =
                          IF RLe(lb_, x[e[1]][e[2]]) /\ RLe(x[e[1]][e[2]], ub_)
                          THEN grads.dy[e[1]][e[2]] ELSE Zero
                /\ grads.d_ub = <<RDiv(SumOver(x, DyDi), n)>>
                /\ grads.d_lb = <<RSub(RNeg(grads.d_ub[1]), SumOver(x, DySign))>>

\* a zero-aligned backward whose bounds were adjusted, with lb # 0 and an
\* element outside the adjusted bounds
C2_Witness ==
    /\ IsQuant(TRUE)
    /\ grads.done
    /\ cache.lb.val[1] # Zero
    /\ AdjLb(cache.lb.val[1], cache.ub.val[1], cache.k) # cache.lb.val[1]
    /\ \E e \in Elems(cache.x) :
          ~MaskX(cache.x[e[1]][e[2]],
                 AdjLb(cache.lb.val[1], cache.ub.val[1], cache.k),
                 AdjUb(cache.lb.val[1], cache.ub.val[1], cache.k))
    /\ grads.d_ub # <<Zero>>

\* dy kept at element e and zero elsewhere
OneHot(dy, e) ==
    [c \in DOMAIN dy |-> [p \in DOMAIN dy[c] |->
        IF <<c, p>> = e THEN dy[c][p] ELSE Zero]]

\* C3: clamp returns min(max(x, lb), ub) elementwise; its backward gives
\* dx = dy where lb <= x <= ub and 0 elsewhere, d_ub the sum of dy over the
\* elements with x > ub and d_lb the sum of dy over those with x < lb; the
\* dy of every element reaches exactly one of dx, d_lb and d_ub.
C3_ClampContract ==
    IsClamp =>
        LET x == cache.x
            lb == cache.lb.val[1]
            ub == cache.ub.val[1]
            Up[c \in Rows(x), p \in Cols(x)] == IF RLt(ub, x[c][p]) THEN grads.dy[c][p] ELSE Zero
            Down[c \in Rows(x), p \in Cols(x)] == IF RLt(x[c][p], lb) THEN grads.dy[c][p] ELSE Zero
            In[c \in Rows(x), p \in Cols(x)] ==
                IF RLe(lb, x[c][p]) /\ RLe(x[c][p], ub)
                THEN grads.dy[c][p] ELSE Zero
            Share(e) == ClampTensorBackward(x, cache.lb, cache.ub,
                                            OneHot(grads.dy, e))
        IN  /\ \A e \in Elems(x) :
                  out.y[e[1]][e[2]] =
                      IF RLt(x[e[1]][e[2]], lb) THEN lb
                      ELSE IF RLt(ub, x[e[1]][e[2]]) THEN ub
                      ELSE x[e[1]][e[2]]
            /\ grads.done =>
                /\ grads.dx = Tensor(x, In)
                /\ grads.d_ub = <<SumOver(x, Up)>>
                /\ grads.d_lb = <<SumOver(x, Down)>>
                /\ \A e \in Elems(x) :
                      LET d == grads.dy[e[1]][e[2]]
                          parts == <<Share(e).dx[e[1]][e[2]], Share(e).d_lb[1],
                                     Share(e).d_ub[1]>>
                      IN  /\ \A j \in 1..3 : parts[j] \in {Zero, d}
                          /\ Cardinality({j \in 1..3 : parts[j] = d}) = 1

\* a clamp backward with one element above ub and one below lb
C3_Witness ==
    /\ IsClamp
    /\ grads.done
    /\ \E e \in Elems(cache.x) : RLt(cache.ub.val[1], cache.x[e[1]][e[2]])
    /\ \E e \in Elems(cache.x) : RLt(cache.x[e[1]][e[2]], cache.lb.val[1])

\* the lowest and the highest grid point of the outstanding quantization
GridLow ==
    IF cache.align_zero
    THEN RNeg(RMul(RRound(RDiv(RAbs(cache.lb.val[1]),
                               RDiv(RSub(cache.ub.val[1], cache.lb.val[1]),
                                    Levels(cache.k)))),
                   RDiv(RSub(cache.ub.val[1], cache.lb.val[1]), Levels(cache.k))))
    ELSE cache.lb.val[1]
GridStep == RDiv(RSub(cache.ub.val[1], cache.lb.val[1]), Levels(cache.k))
GridHigh == RAdd(GridLow, RMul(Levels(cache.k), GridStep))
GridIndexes == 0..(Pow2(cache.k) - 1)

\* C4: every output element of fake_quantize is lb + i * delta (free mode) or
\* lb' + i * delta (zero-aligned mode) for an integer i with 0 <= i <= N, so
\* it lies inside the (adjusted) bounds.
C4_GridMembership ==
    cache.op = "quant" =>
        \A e \in Elems(cache.x) :
            /\ \E i \in GridIndexes :
                  out.y[e[1]][e[2]] = RAdd(GridLow, RMul(R(i), GridStep))
            /\ RLe(GridLow, out.y[e[1]][e[2]])
            /\ RLe(out.y[e[1]][e[2]], GridHigh)

\* a quantization with an element above the bounds and an output strictly
\* between the lowest and the highest grid point
C4_Witness ==
    /\ cache.op = "quant"
    /\ cache.k > 1
    /\ \E e \in Elems(cache.x) : RLt(GridHigh, cache.x[e[1]][e[2]])
    /\ \E e \in Elems(cache.x) :
          /\ RLt(GridLow, out.y[e[1]][e[2]])
          /\ RLt(out.y[e[1]][e[2]], GridHigh)

\* the gradients the outstanding pair returns for dy kept at element e alone:
\* the share of element e in d_lb and d_ub
ShareOf(e) ==
    IF cache.op = "clamp"
    THEN ClampTensorBackward(cache.x, cache.lb, cache.ub, OneHot(grads.dy, e))
    ELSE Backward(cache.impl, cache.x, cache.lb, cache.ub, cache.k,
                  cache.align_zero, OneHot(grads.dy, e))

\* the saturation law at element e, against the bounds as given
SaturationLawAt(e) ==
    LET xe == cache.x[e[1]][e[2]]
        d == grads.dy[e[1]][e[2]]
    IN  /\ RLt(cache.ub.val[1], xe) =>
              grads.dx[e[1]][e[2]] = Zero /\ ShareOf(e).d_ub[1] = d
        /\ RLt(xe, cache.lb.val[1]) =>
              grads.dx[e[1]][e[2]] = Zero /\ ShareOf(e).d_lb[1] = d

\* C5: an element strictly above ub has dx = 0 and gives its whole dy to
\* d_ub, an element strictly below lb has dx = 0 and gives its whole dy to
\* d_lb; for clamp and for both modes of fake quantization.
C5_SaturationGradient ==
    (cache.op # "none" /\ grads.done) =>
        \A e \in Elems(cache.x) : SaturationLawAt(e)

\* the outstanding pair is a fake quantization with per-channel bounds
IsChanQuant == IF cache.op = "quant" THEN cache.lb.dim = 1 ELSE FALSE

\* channel c quantized alone, with the 0-dimensional bounds lb[c] and ub[c]
ChannelAlone(c) ==
    Backward(cache.impl, <<cache.x[c]>>, Scalar(cache.lb.val[c]),
             Scalar(cache.ub.val[c]), cache.k, cache.align_zero, <<grads.dy[c]>>)

\* C6: with per-channel bounds the gradient of lb[c] and of ub[c] is the one
\* channel c gets when it is quantized alone with the 0-dimensional bounds
\* lb[c], ub[c]; an element of another channel contributes nothing to it.
C6_PerChannel ==
    (IsChanQuant /\ grads.done) =>
        /\ Len(grads.d_lb) = Len(cache.x)
        /\ Len(grads.d_ub) = Len(cache.x)
        /\ \A c \in 1..Len(cache.x) :
              LET alone == ChannelAlone(c)
              IN  /\ grads.d_lb[c] = alone.d_lb[1]
                  /\ grads.d_ub[c] = alone.d_ub[1]
                  /\ grads.dx[c] = alone.dx[1]

\* a per-channel backward whose channels have different bounds and get
\* different, non-zero bound gradients
C6_Witness ==
    /\ IsChanQuant
    /\ grads.done
    /\ cache.lb.val[1] # cache.lb.val[2]
    /\ cache.ub.val[1] # cache.ub.val[2]
    /\ grads.d_lb[1] # grads.d_lb[2]
    /\ grads.d_ub[1] # grads.d_ub[2]
    /\ \A c \in 1..2 : grads.d_lb[c] # Zero /\ grads.d_ub[c] # Zero

\* C7: fake_quantize applied to the output of fake_quantize, with the same
\* bounds, bit-width and mode, returns that output unchanged.
C7_Idempotence ==
    cache.op = "quant" =>
        Forward(cache.impl, out.y, cache.lb, cache.ub, cache.k, cache.align_zero) = out.y

\* a quantization that moved an element: its output differs from its input
C7_Witness ==
    /\ cache.op = "quant"
    /\ cache.k > 1
    /\ \E e \in Elems(cache.x) :
          /\ out.y[e[1]][e[2]] # cache.x[e[1]][e[2]]
          /\ RLt(cache.lb.val[1], cache.x[e[1]][e[2]])
          /\ RLt(cache.x[e[1]][e[2]], cache.ub.val[1])

\* 0 is one of the grid points GridLow + i * GridStep, 0 <= i <= N
ZeroOnGrid == \E i \in GridIndexes : RAdd(GridLow, RMul(R(i), GridStep)) = Zero

\* C8 as stated: in zero-aligned mode, for all valid bounds ub > lb and every
\* k >= 1, the value 0 is one of the N + 1 grid points lb' + i * delta, that
\* is lb' <= 0 <= ub'.
C8_ZeroOnGridAllBounds ==
    IsQuant(TRUE) => ZeroOnGrid /\ RLe(GridLow, Zero) /\ RLe(Zero, GridHigh)

\* C8: in zero-aligned mode 0 is a grid point exactly when z <= N, and that
\* is the case whenever lb <= 0 <= ub; then lb' <= 0 <= ub' and an element
\* equal to 0 is quantized to 0.
C8_ZeroAlignment ==
    IsQuant(TRUE) =>
        LET lb == cache.lb.val[1]
            ub == cache.ub.val[1]
            lo == AdjLb(lb, ub, cache.k)
            hi == AdjUb(lb, ub, cache.k)
            d == Delta(lb, ub, cache.k)
            onGrid == \E i \in GridIndexes : RAdd(lo, RMul(R(i), d)) = Zero
        IN  /\ onGrid <=> RLe(ZeroPoint(lb, ub, cache.k), Levels(cache.k))
            /\ (RLe(lb, Zero) /\ RLe(Zero, ub)) =>
                  /\ onGrid
                  /\ RLe(lo, Zero)
                  /\ RLe(Zero, hi)
                  /\ \A e \in Elems(cache.x) :
                        cache.x[e[1]][e[2]] = Zero => out.y[e[1]][e[2]] = Zero

\* a zero-aligned quantization whose bounds straddle 0 and were adjusted, with
\* an element equal to 0
C8_Witness ==
    /\ IsQuant(TRUE)
    /\ RLt(cache.lb.val[1], Zero)
    /\ RLt(Zero, cache.ub.val[1])
    /\ AdjLb(cache.lb.val[1], cache.ub.val[1], cache.k) # cache.lb.val[1]
    /\ \E e \in Elems(cache.x) : cache.x[e[1]][e[2]] = Zero

\* the two grid endpoints of a 1-bit quantization: the step is ub - lb
BinaryLow ==
    IF cache.align_zero
    THEN RNeg(RMul(RRound(RDiv(RAbs(cache.lb.val[1]),
                               RSub(cache.ub.val[1], cache.lb.val[1]))),
                   RSub(cache.ub.val[1], cache.lb.val[1])))
    ELSE cache.lb.val[1]
BinaryHigh == RAdd(BinaryLow, RSub(cache.ub.val[1], cache.lb.val[1]))

\* C9: with k = 1 every output element is one of the two grid endpoints, and
\* the reference and the fused path return equal dx, d_lb and d_ub.
C9_BinaryCase ==
    (cache.op = "quant" /\ cache.k = 1) =>
        /\ \A e \in Elems(cache.x) : out.y[e[1]][e[2]] \in {BinaryLow, BinaryHigh}
        /\ out.y = RefForward(cache.x, cache.lb, cache.ub, 1, cache.align_zero)
        /\ out.y = FusedForward(cache.x, cache.lb, cache.ub, 1, cache.align_zero)
        /\ grads.done =>
              /\ SameGrads(grads, RefBackward(cache.x, cache.lb, cache.ub, 1,
                                              cache.align_zero, grads.dy))
              /\ SameGrads(grads, FusedBackward(cache.x, cache.lb, cache.ub, 1,
                                                cache.align_zero, grads.dy))

\* a 1-bit backward whose output takes both endpoints, with non-zero bound
\* gradients
C9_Witness ==
    /\ cache.op = "quant"
    /\ cache.k = 1
    /\ grads.done
    /\ \E e \in Elems(cache.x) : out.y[e[1]][e[2]] = BinaryLow
    /\ \E e \in Elems(cache.x) : out.y[e[1]][e[2]] = BinaryHigh
    /\ grads.d_lb # <<Zero>>
    /\ grads.d_ub # <<Zero>>

\* every outstanding forward was computed from bounds with ub > lb in every
\* element, and its output is finite
CacheHasValidBounds ==
    IF cache.op = "none" THEN TRUE
    ELSE /\ \A j \in DOMAIN cache.lb.val : RLt(cache.lb.val[j], cache.ub.val[j])
         /\ \A e \in Elems(cache.x) : IsFinite(out.y[e[1]][e[2]])

\* a call that fails with InvalidBoundsError changes nothing else
RejectedCallKeepsState ==
    err' = "InvalidBoundsError" => UNCHANGED <<cache, out, grads>>

\* C10: a forward call with ub <= lb in any element fails with
\* InvalidBoundsError: no output and no forward cache is ever produced from
\* such bounds (no division by a non-positive step), and the failed call
\* leaves the cache, the output and the gradients as they were.
C10_InvalidBoundsRejected ==
    []CacheHasValidBounds /\ [][RejectedCallKeepsState]_vars

\* a rejected call made while a consumed forward/backward pair is still held
C10_Witness ==
    /\ err = "InvalidBoundsError"
    /\ cache.op = "quant"
    /\ out.valid
    /\ grads.done

\* the outstanding cache has been consumed by a backward
Consumed == IF cache.op = "none" THEN FALSE ELSE cache.consumed

\* a step that delivers gradients: a successful backward
BackwardSucceeds == grads'.done /\ grads' # grads

\* the lifecycle of the forward cache in one step
CacheLifecycleStep ==
    /\ BackwardSucceeds =>
          /\ cache.op # "none"
          /\ ~Consumed
          /\ Consumed'
          /\ cache' = [cache EXCEPT !.consumed = TRUE]
    /\ Consumed => (cache' = cache \/ cache' = NoCache)
    /\ (Stale /\ \E dy \in Tensors(Shape, DyVals) : BackwardCall(dy)) =>
          err' = "StaleCacheError" /\ UNCHANGED <<cache, out, grads>>
    /\ err' = "StaleCacheError" => Stale /\ UNCHANGED <<cache, out, grads>>

\* C11: a backward succeeds only on a cache that a forward created and that
\* no backward has consumed yet; it consumes that cache, a consumed cache is
\* never consumed again, and a backward that finds no cache or a consumed one
\* fails with StaleCacheError and changes nothing.
C11_CacheLifecycle ==
    [](grads.done => Consumed) /\ [][CacheLifecycleStep]_vars

\* a second backward on a consumed cache has failed and the gradients of the
\* first are still there
C11_Witness ==
    /\ err = "StaleCacheError"
    /\ Consumed
    /\ grads.done
    /\ grads.d_lb # <<Zero>>

\* C12: in zero-aligned mode lb = 0 with ub > 0 is accepted; sign(0) is 0,
\* z = 0, the adjusted bounds are the bounds themselves, the output and the
\* gradients are finite, and d_lb = -d_ub.
C12_ZeroLowerBound ==
    /\ \A u \in 1..MaxB : ValidBounds(Scalar(Zero), Scalar(R(u)))
    /\ (IsQuant(TRUE) /\ cache.lb.val[1] = Zero) =>
          /\ RSign(cache.lb.val[1]) = Zero
          /\ ZeroPoint(Zero, cache.ub.val[1], cache.k) = Zero
          /\ AdjLb(Zero, cache.ub.val[1], cache.k) = Zero
          /\ AdjUb(Zero, cache.ub.val[1], cache.k) = cache.ub.val[1]
          /\ \A e \in Elems(cache.x) : IsFinite(out.y[e[1]][e[2]])
          /\ grads.done =>
                /\ IsFinite(grads.d_lb[1])
                /\ IsFinite(grads.d_ub[1])
                /\ \A e \in Elems(cache.x) : IsFinite(grads.dx[e[1]][e[2]])
                /\ grads.d_lb[1] = RNeg(grads.d_ub[1])

\* a zero-aligned backward with lb = 0 and a non-zero bound gradient
C12_Witness ==
    /\ IsQuant(TRUE)
    /\ cache.lb.val[1] = Zero
    /\ grads.done
    /\ err = ""
    /\ grads.d_ub # <<Zero>>

\* the gradients of pair c computed sequentially, on its own
Sequential(impl, c) ==
    Backward(impl, c.x, Scalar(c.lb), Scalar(c.ub), c.k, c.align_zero, c.dy)

\* C13: whatever the order in which workers process the elements of a pair
\* and accumulate its bound gradients, and whatever another pair is doing
\* with its own cache meanwhile, the pair ends with the output and with the
\* dx, d_lb and d_ub of the sequential computation on its own inputs.
C13_ConcurrentEvaluation ==
    \A p \in PairIds :
        /\ inflight[p].st # "idle" =>
              inflight[p].y = Forward("ref", inflight[p].x, Scalar(inflight[p].lb),
                                      Scalar(inflight[p].ub), inflight[p].k,
                                      inflight[p].align_zero)
        /\ inflight[p].st = "done" =>
              \A impl \in Impls :
                  /\ inflight[p].dx = Sequential(impl, inflight[p]).dx
                  /\ <<inflight[p].d_lb>> = Sequential(impl, inflight[p]).d_lb
                  /\ <<inflight[p].d_ub>> = Sequential(impl, inflight[p]).d_ub

\* pair 1 has finished, its second element processed last, while pair 2, on
\* other bounds, is half-way through its own backward
C13_Witness ==
    /\ inflight[1].st = "done"
    /\ inflight[1].d_lb # Zero
    /\ inflight[1].d_ub # Zero
    /\ inflight[2].st = "running"
    /\ inflight[2].pending = {<<1, 1>>}
    /\ inflight[2].lb # inflight[1].lb
    /\ inflight[2].d_ub # Zero

\* the modes of the running call whose iteration has passed the assertion
ModesRun ==
    {wrapper.forwards[j].mode : j \in 1..Len(wrapper.forwards)}

\* C14: batch_processor runs the modes in order; at each model forward every
\* quantized submodule has weight quantization on iff the mode is "quant" or
\* "qw_fa" and activation quantization on iff it is "quant" or "fw_qa"; a
\* mode outside VALID_QUANT_MODE fails the assertion before any forward for
\* it; the result holds the label and one output entry per mode.
C14_BatchProcessor ==
    /\ \A j \in 1..Len(wrapper.forwards) :
          LET f == wrapper.forwards[j]
          IN  /\ f.mode = wrapper.quant_mode[j]
              /\ f.mode \in {"fp", "quant", "qw_fa", "fw_qa"}
              /\ \A m \in QuantSubmodules :
                    /\ f.weight_enabled[m] <=> f.mode \in {"quant", "qw_fa"}
                    /\ f.input_enabled[m] <=> f.mode \in {"quant", "fw_qa"}
    /\ wrapper.phase = "AssertionError" =>
          /\ wrapper.quant_mode[wrapper.i] \notin VALID_QUANT_MODE
          /\ Len(wrapper.forwards) = wrapper.i - 1
    /\ wrapper.phase = "returned" =>
          /\ Len(wrapper.forwards) = Len(wrapper.quant_mode)
          /\ DOMAIN wrapper.outputs =
                {"label"} \cup {wrapper.quant_mode[j] : j \in 1..Len(wrapper.quant_mode)}
          /\ wrapper.outputs["label"] = "label"
          /\ \A mode \in ModesRun : wrapper.outputs[mode].mode = mode

\* a call over ("fw_qa", "qw_fa") has returned
C14_Witness ==
    /\ wrapper.phase = "returned"
    /\ wrapper.quant_mode = <<"fw_qa", "qw_fa">>
    /\ Len(wrapper.forwards) = 2
    /\ wrapper.forwards[1].input_enabled["fc"]
    /\ ~wrapper.forwards[1].weight_enabled["fc"]
    /\ wrapper.weight_enabled["conv1"]

\* the name starts with one of the patterns
StartsWithOneOf(fp_layers, n) ==
    \E i \in 1..Len(fp_layers) :
        \E len \in 0..Len(Spell[n]) :
            Spell[fp_layers[i]] = [j \in 1..len |-> Spell[n][j]]

\* C15: after construction a submodule is in the quantized set, with its
\* four bounds and two QuantConfigs, iff its type is quantable and no
\* fp_layers pattern matches its name; a quantized submodule that was
\* BN-folded keeps the fused forward, every other quantized submodule gets
\* the quantized forward of its type.
C15_QuantizedSet ==
    wrapper.constructed =>
        \A n \in Names :
            /\ n \in wrapper._quant_submodules <=>
                  /\ TypeOf[n] \in {"Conv2d", "Linear"}
                  /\ (wrapper.fp_layers = <<"None">>
                         \/ ~StartsWithOneOf(wrapper.fp_layers, n))
            /\ n \in wrapper._quant_submodules <=> wrapper.params[n].registered
            /\ wrapper.params[n].registered =>
                  wrapper.params[n].weight_qconf /\ wrapper.params[n].input_qconf
            /\ n \in wrapper._quant_submodules =>
                  IF \E i \in 1..Len(wrapper.bn_folding_mapping) :
                         n \in {wrapper.bn_folding_mapping[i][1],
                                wrapper.bn_folding_mapping[i][2]}
                  THEN wrapper.forward[n] = <<"FUSED_FORWARD_FUNCTIONS", TypeOf[n]>>
                  ELSE wrapper.forward[n] = <<"QUANT_FORWARD_FUNCTIONS", TypeOf[n]>>

\* conv1 is folded and quantized, fc is kept in full precision, and the
\* pattern "1" has matched no name
C15_Witness ==
    /\ wrapper.constructed
    /\ wrapper.last = "_register_quant_params"
    /\ wrapper.fp_layers \in {<<"1">>, <<"conv1", "fc">>}
    /\ wrapper.bn_folding_mapping # <<>>
    /\ \/ wrapper.fp_layers = <<"1">> /\ wrapper._quant_submodules = {"conv1", "conv2", "fc"}
       \/ wrapper.fp_layers = <<"conv1", "fc">> /\ wrapper._quant_submodules = {"conv2"}

\* C17: after _register_quant_params and after do_calibration every
\* quantized submodule has w_ub > w_lb and a_ub > a_lb.
C17_BoundsOrdered ==
    (wrapper.constructed /\ wrapper.last \in {"_register_quant_params", "do_calibration"}) =>
        \A n \in wrapper._quant_submodules :
            /\ wrapper.params[n].w_ub > wrapper.params[n].w_lb
            /\ wrapper.params[n].a_ub > wrapper.params[n].a_lb

\* C16: after forward has returned or raised, no handle registered for that
\* call is still on a module and the inner module of a DDP has its class
\* forward again.
C16_HooksRemoved ==
    wrapper.phase \in {"returned", "raised"} =>
        /\ \A h \in wrapper.registered : h.call # wrapper.call
        /\ wrapper.inner_forward = "_module_forward"

\* the groups of the call that have a pattern matching the name
MatchingGroups(name) ==
    {i \in 1..Len(wrapper.optim_groups) :
        \E j \in 1..Len(wrapper.optim_groups[i].matches) :
            OptimMatch(wrapper.optim_groups[i].matches[j], name)}

\* C18: every named parameter is in the optimizer of the first group that
\* has a pattern matching its name and in no other optimizer, a parameter
\* matched by no group is in none, and a call with exactly one group returns
\* the optimizer itself instead of a mapping from names to optimizers.
C18_FirstMatchPartition ==
    wrapper.called =>
        /\ Len(wrapper.made) = Len(wrapper.optim_groups)
        /\ \A name \in ParamNames, i \in 1..Len(wrapper.made) :
              name \in wrapper.made[i].params <=>
                  /\ i \in MatchingGroups(name)
                  /\ \A j \in MatchingGroups(name) : i <= j
        /\ Len(wrapper.optim_groups) = 1 =>
              wrapper.ret = [optimizer |-> wrapper.made[1]]
        /\ "mapping" \in DOMAIN wrapper.ret =>
              /\ DOMAIN wrapper.ret.mapping =
                    {wrapper.optim_groups[i].name : i \in 1..Len(wrapper.optim_groups)}
              /\ \A k \in DOMAIN wrapper.ret.mapping :
                    wrapper.ret.mapping[k] \in
                        {wrapper.made[i] : i \in 1..Len(wrapper.made)}

\* two groups that both match conv1.w_lb; the first one has it
C18_Witness ==
    /\ wrapper.called
    /\ Len(wrapper.optim_groups) = 2
    /\ MatchingGroups("conv1.w_lb") = {1, 2}
    /\ MatchingGroups("fc.weight") = {2}
    /\ "mapping" \in DOMAIN wrapper.ret
    /\ "conv1.w_lb" \in wrapper.ret.mapping["quant"].params
    /\ wrapper.ret.mapping["weight"].params = {"fc.weight"}

\* the save of lines 268-273 has run in the step just taken
SavedBest(t) == \E i \in 1..Len(t.saves) : t.saves[i].at = "best"

\* what one step of the loop does to BEST_ACCURACY and to the best checkpoint
BestAccuracyStep ==
    /\ trainer'.BEST_ACCURACY >= trainer.BEST_ACCURACY
    /\ trainer'.BEST_ACCURACY # trainer.BEST_ACCURACY =>
          /\ trainer'.evaluated
          /\ trainer'.step % trainer'.freq = 0 \/ trainer'.step = trainer'.len
          /\ trainer'.BEST_ACCURACY =
                IF trainer'.quant_enabled THEN trainer'.eval_q_top1
                ELSE trainer'.eval_fp_top1
    /\ (trainer'.step # trainer.step /\ trainer'.evaluated) =>
          (trainer'.BEST_ACCURACY # trainer.BEST_ACCURACY <=>
              (IF trainer'.quant_enabled THEN trainer'.eval_q_top1
               ELSE trainer'.eval_fp_top1) > trainer.BEST_ACCURACY)
    /\ trainer'.step # trainer.step =>
          (SavedBest(trainer') <=> trainer'.BEST_ACCURACY # trainer.BEST_ACCURACY)
    /\ trainer'.step # trainer.step =>
          (trainer'.evaluated <=>
              (trainer'.step % trainer'.freq = 0 \/ trainer'.step = trainer'.len))

\* C19: BEST_ACCURACY never decreases; it is replaced only at an evaluation
\* step, by the evaluated top-1 accuracy (quantized when quantization is
\* enabled, full precision otherwise) when that is strictly greater, and the
\* best checkpoint is saved in exactly the steps that replace it.
C19_BestAccuracy ==
    [][BestAccuracyStep]_allvars /\ [](trainer.checkpoint.accuracy = trainer.BEST_ACCURACY)

\* an evaluation with quantization on has raised the best accuracy to 70 and
\* saved it, after a step that was not an evaluation step
C19_Witness ==
    /\ trainer.running
    /\ trainer.step = 2
    /\ trainer.freq = 2
    /\ trainer.quant_enabled
    /\ trainer.eval_q_top1 = 70
    /\ trainer.eval_fp_top1 = 0
    /\ trainer.BEST_ACCURACY = 70
    /\ SavedBest(trainer)

\* dy of the elements strictly outside the bounds, summed
SaturatedDy ==
    LET f[c \in Rows(cache.x), p \in Cols(cache.x)] ==
            IF RLt(cache.x[c][p], cache.lb.val[1]) \/ RLt(cache.ub.val[1], cache.x[c][p])
            THEN grads.dy[c][p] ELSE Zero
    IN  SumOver(cache.x, f)

\* C20: in free mode d_lb + d_ub is the sum of dy over the saturated
\* elements, and for every element dx plus its contributions to d_lb and
\* d_ub is dy; in zero-aligned mode d_lb + d_ub = -sum(dy) * sign(lb).
C20_BoundGradientConservation ==
    /\ (IsQuant(FALSE) /\ grads.done) =>
          /\ RAdd(grads.d_lb[1], grads.d_ub[1]) = SaturatedDy
          /\ \A e \in Elems(cache.x) :
                RAdd(grads.dx[e[1]][e[2]],
                     RAdd(ShareOf(e).d_lb[1], ShareOf(e).d_ub[1])) = grads.dy[e[1]][e[2]]
    /\ (IsQuant(TRUE) /\ grads.done) =>
          RAdd(grads.d_lb[1], grads.d_ub[1]) =
              RMul(RNeg(SumAll(grads.dy)), RSign(cache.lb.val[1]))

\* a free-mode backward over one saturated element and one interior element
\* that is off the grid
C20_Witness ==
    /\ grads.done
    /\ err = ""
    /\ IsQuant(FALSE)
    /\ SaturatedDy # Zero
    /\ \E e \in Elems(cache.x) :
          /\ MaskX(cache.x[e[1]][e[2]], cache.lb.val[1], cache.ub.val[1])
          /\ QiDiff(cache.x[e[1]][e[2]], cache.lb.val[1], cache.ub.val[1], cache.k) # Zero

====
